---- MODULE Spec2Model ----
(***************************************************************************)
(* The dataset-construction pipeline of src/dataset.py: the four source    *)
(* cleaners, the geometry processor, the station aggregator, the dataset   *)
(* merger and the m2_price derivation, as pure operators over tables, and  *)
(* the calls of them as actions.                                           *)
(*                                                                         *)
(* A table (pandas DataFrame) is a sequence of rows; a row is a record of  *)
(* its columns.  A raw CSV cell is a sequence of one-character strings,    *)
(* the empty sequence being an empty cell (read by pandas as NaN).  A      *)
(* number is an exact fraction [kind, num, den]; NaN and inf are kinds.    *)
(***************************************************************************)
EXTENDS Integers, Sequences, FiniteSets, TLC

\* ------------------------------------------------------------------ bounds

\* Most data rows in one input file.
MaxRows == 2

\* Most features in the boundary file.
MaxFeatures == 2

\* Most station records in the stations file.
MaxStations == 3

\* Most tables passed to one call of merge_datasets (at least two).
MaxTables == 2

\* ------------------------------------------------------------- sequences

Range(s) == {s[i] : i \in 1..Len(s)}

SeqsUpTo(S, n) == UNION {[1..k -> S] : k \in 0..n}

RECURSIVE SelectRows(_, _)
\* The rows of s at the positions keep(i) holds for, in order (boolean indexing).
SelectRows(s, keep) ==
    IF s = <<>> THEN <<>>
    ELSE LET rest == SelectRows(SubSeq(s, 1, Len(s) - 1), keep)
         IN IF keep[Len(s)] THEN Append(rest, s[Len(s)]) ELSE rest

RECURSIVE SumSeq(_)
SumSeq(s) == IF s = <<>> THEN 0 ELSE Head(s) + SumSeq(Tail(s))

RECURSIVE Flatten(_)
Flatten(ss) == IF ss = <<>> THEN <<>> ELSE Head(ss) \o Flatten(Tail(ss))

\* ---------------------------------------------------------------- numbers

RECURSIVE Gcd(_, _)
Gcd(a, b) == IF b = 0 THEN a ELSE Gcd(b, a % b)

Abs(x) == IF x < 0 THEN -x ELSE x

NaN == [kind |-> "nan", num |-> 0, den |-> 1]

Inf == [kind |-> "inf", num |-> 1, den |-> 1]

\* The number n/d, d > 0, in lowest terms.
Frac(n, d) ==
    LET g == Gcd(Abs(n), d)
    IN [kind |-> "num", num |-> n \div g, den |-> d \div g]

IsNaN(v) == v.kind = "nan"

IsFinite(v) == v.kind = "num"

\* Float division as pandas/numpy do it on a float column: x/0 is inf (or
\* -inf), 0/0 and anything with NaN is NaN; nothing is raised.
Divide(a, b) ==
    IF IsNaN(a) \/ IsNaN(b) THEN NaN
    ELSE IF b.num = 0 THEN (IF a.num = 0 THEN NaN ELSE Inf)
    ELSE IF b.num > 0 THEN Frac(a.num * b.den, a.den * b.num)
    ELSE Frac(-(a.num * b.den), a.den * (-b.num))

\* ------------------------------------------------------------------ cells

Digits == {"0", "1", "2", "3", "4", "5", "6", "7", "8", "9"}

DigitVal(c) ==
    CASE c = "0" -> 0 [] c = "1" -> 1 [] c = "2" -> 2 [] c = "3" -> 3
      [] c = "4" -> 4 [] c = "5" -> 5 [] c = "6" -> 6 [] c = "7" -> 7
      [] c = "8" -> 8 [] c = "9" -> 9

EmptyCell == <<>>

RECURSIVE DigitsVal(_)
DigitsVal(s) ==
    IF s = <<>> THEN 0
    ELSE 10 * DigitsVal(SubSeq(s, 1, Len(s) - 1)) + DigitVal(s[Len(s)])

RECURSIVE Pow10(_)
Pow10(n) == IF n = 0 THEN 1 ELSE 10 * Pow10(n - 1)

\* pd.to_numeric(..., errors='coerce') on one cell: digits with at most one
\* decimal point parse to their value; an empty cell and any other text
\* become NaN.
to_numeric(cell) ==
    LET dots == {i \in 1..Len(cell) : cell[i] = "."}
    IN IF cell = EmptyCell THEN NaN
       ELSE IF \E i \in 1..Len(cell) : cell[i] \notin Digits \cup {"."} THEN NaN
       ELSE IF Cardinality(dots) > 1 \/ Cardinality(dots) = Len(cell) THEN NaN
       ELSE IF dots = {} THEN Frac(DigitsVal(cell), 1)
       ELSE LET p == CHOOSE i \in dots : TRUE
                ip == SubSeq(cell, 1, p - 1)
                fp == SubSeq(cell, p + 1, Len(cell))
            IN Frac(DigitsVal(ip) * Pow10(Len(fp)) + DigitsVal(fp), Pow10(Len(fp)))

RECURSIVE ReplaceAll(_, _, _)
\* Every occurrence of the text pat in s, left to right, replaced by rep.
ReplaceAll(s, pat, rep) ==
    IF Len(s) < Len(pat) THEN s
    ELSE IF SubSeq(s, 1, Len(pat)) = pat
         THEN rep \o ReplaceAll(SubSeq(s, Len(pat) + 1, Len(s)), pat, rep)
         ELSE <<Head(s)>> \o ReplaceAll(Tail(s), pat, rep)

Whitespace == {" "}

RECURSIVE StripWhitespace(_)
\* The regex replacement r'\s+' -> ''.
StripWhitespace(s) ==
    IF s = <<>> THEN <<>>
    ELSE IF Head(s) \in Whitespace THEN StripWhitespace(Tail(s))
    ELSE <<Head(s)>> \o StripWhitespace(Tail(s))

\* ------------------------------------------------------------------ names

\* Municipality names as they occur in the source files.
Names == {"Utrecht", "Utrecht (gemeente)", "Laren"}

\* src/utils.py: the fixed table of alternate spellings -> canonical name.
municipality_name_mapping == [n \in {"Utrecht (gemeente)"} |-> "Utrecht"]

\* src/utils.py: the fallback incomes, keyed by municipality name.
missing_incomes == [n \in {"Utrecht"} |-> Frac(226, 5)]

\* canonicalize(name): the canonical name of a known alias, any other name
\* unchanged.
canonicalize(name) ==
    IF name \in DOMAIN municipality_name_mapping
    THEN municipality_name_mapping[name] ELSE name

\* src/utils.py apply_name_mapping(df, column, mapping): the table with the
\* column's names canonicalized.
apply_name_mapping(df, mapping) ==
    [i \in 1..Len(df) |->
        [df[i] EXCEPT !.municipality =
            IF @ \in DOMAIN mapping THEN mapping[@] ELSE @]]

\* ------------------------------------------------------- function results

Return(t) == [ok |-> TRUE, table |-> t, error |-> "none"]

Raise(e) == [ok |-> FALSE, table |-> <<>>, error |-> e]

\* pd.read_csv: the data rows under the header, labelled 0, 1, ... (the
\* DataFrame's index).
read_csv(file) ==
    [i \in 1..Len(file.rows) |-> [index |-> i - 1] @@ file.rows[i]]

\* DataFrame.reset_index(drop=True): the rows relabelled 0, 1, ...
reset_index(data) ==
    [i \in 1..Len(data) |-> [data[i] EXCEPT !.index = i - 1]]

\* ------------------------------------------------------------- cleaners

clean_price_data(file) ==
    LET data == read_csv(file)
        coerced == [i \in 1..Len(data) |->
                       [index |-> data[i].index,
                        municipality |-> data[i].municipality,
                        avg_price |-> to_numeric(data[i].avg_price)]]
    IN IF Len(file.header) # Len(<<"municipality", "Subject", "Currency", "avg_price">>)
       THEN Raise("ValueError")
       ELSE Return(SelectRows(coerced,
                [i \in 1..Len(coerced) |-> ~IsNaN(coerced[i].avg_price)]))

\* The slice left out.
DropFirst_Off(data) == data

\* data[1:]
DropFirst(data) == IF data = <<>> THEN <<>> ELSE Tail(data)

clean_surface_data(file) ==
    LET data == read_csv(file)
        present == SelectRows(data,
                       [i \in 1..Len(data) |->
                           /\ data[i].municipality # ""
                           /\ data[i].avg_surface # EmptyCell])
        rest == reset_index(DropFirst(present))
    IN IF ~({"Unnamed: 0", "Totaal.1"} \subseteq Range(file.header))
       THEN Raise("KeyError")
       ELSE Return([i \in 1..Len(rest) |->
                [index |-> rest[i].index,
                 municipality |-> rest[i].municipality,
                 avg_surface |-> to_numeric(rest[i].avg_surface)]])

\* The replacements of line 66, one after the other, on a text cell.
StripUnits(cell) ==
    StripWhitespace(
        ReplaceAll(
            ReplaceAll(
                ReplaceAll(cell, <<",">>, <<>>),
                <<" ", "k", "m", "²">>, <<>>),
            <<" ", "a", "a", "n", "t", "a", "l">>, <<>>))

clean_municipality_data(file) ==
    LET data == read_csv(file)
        coerced == [i \in 1..Len(data) |->
                       [index |-> data[i].index,
                        municipality |-> data[i].municipality,
                        population |-> to_numeric(StripUnits(data[i].population)),
                        pop_density |-> to_numeric(StripUnits(data[i].pop_density)),
                        size |-> to_numeric(StripUnits(data[i].size))]]
    IN IF Len(file.header)
            # Len(<<"municipality", "year", "population", "pop_density", "size">>)
       THEN Raise("ValueError")
       ELSE Return(reset_index(SelectRows(coerced,
                [i \in 1..Len(coerced) |->
                    /\ ~IsNaN(coerced[i].population)
                    /\ ~IsNaN(coerced[i].pop_density)
                    /\ ~IsNaN(coerced[i].size)])))

\* The replacements of line 92: decimal comma to point, whitespace removed.
DecimalPoint(cell) == StripWhitespace(ReplaceAll(cell, <<",">>, <<".">>))

\* The fallback taken wherever there is one, also over a parsed value.
fillna_Overwrite(value, other) == IF IsNaN(other) THEN value ELSE other

\* Series.fillna(other): the value itself unless it is NaN, then other's.
fillna(value, other) == IF IsNaN(value) THEN other ELSE value

\* data['municipality'].map(missing_incomes): NaN for a name that is no key.
MapIncome(name) ==
    IF name \in DOMAIN missing_incomes THEN missing_incomes[name] ELSE NaN

clean_income_data(file) ==
    LET data == read_csv(file)
        filled == [i \in 1..Len(data) |->
                      [index |-> data[i].index,
                       municipality |-> data[i].municipality,
                       avg_income |->
                           fillna(to_numeric(DecimalPoint(data[i].avg_income)),
                                  MapIncome(data[i].municipality))]]
    IN IF Len(file.header) # Len(<<"municipality", "avg_income">>)
       THEN Raise("ValueError")
       ELSE Return(SelectRows(filled,
                [i \in 1..Len(filled) |-> ~IsNaN(filled[i].avg_income)]))

\* ------------------------------------------------------------- geometry

\* No value (Python's None) where a latitude/longitude pair is expected.
None == [lat |-> "None", lon |-> "None"]

schiphol_coords == [lat |-> "52.3158", lon |-> "4.7480"]

\* A geometry is a polygon with its centroid, an empty polygon (it has no
\* centroid coordinates) or an object shapely's shape() cannot read.
calculate_centroid_lat_lon(geometry) ==
    CASE geometry.kind = "Polygon" ->
            [ok |-> TRUE, value |-> [lat |-> geometry.lat, lon |-> geometry.lon],
             error |-> "none"]
      [] geometry.kind = "EmptyPolygon" ->
            [ok |-> TRUE, value |-> None, error |-> "none"]
      [] OTHER ->
            [ok |-> FALSE, value |-> None, error |-> "GeometryTypeError"]

\* The great-circle distance in km, kept as the term over its two points;
\* math.radians raises TypeError on None.
haversine(p1, p2) ==
    IF p1 = None \/ p2 = None
    THEN [ok |-> FALSE, value |-> <<>>, error |-> "TypeError"]
    ELSE [ok |-> TRUE, value |-> <<"haversine", p1.lat, p1.lon, p2.lat, p2.lon>>,
          error |-> "none"]

\* The name of the file kept as it is.
corrected_name_Raw(original_name) == original_name

\* Line 162: municipality_name_mapping.get(original_name, original_name)
corrected_name(original_name) ==
    IF original_name \in DOMAIN municipality_name_mapping
    THEN municipality_name_mapping[original_name] ELSE original_name

\* One pass of the loop of lines 160-169 on one feature: the row appended,
\* or the exception that leaves the loop.
ProcessFeature(feature) ==
    LET c == calculate_centroid_lat_lon(feature.geometry)
        d == haversine(c.value, schiphol_coords)
    IN IF ~c.ok THEN Raise(c.error)
       ELSE IF ~d.ok THEN Raise(d.error)
       ELSE Return(<<[municipality |-> corrected_name(feature.statnaam),
                      schiphol_distance |-> d.value]>>)

load_and_process_geojson(geojson_data) ==
    LET features == geojson_data.features
        passes == [i \in 1..Len(features) |-> ProcessFeature(features[i])]
        raised == {i \in 1..Len(features) : ~passes[i].ok}
        first == CHOOSE i \in raised : \A j \in raised : i <= j
    IN IF raised # {} THEN Raise(passes[first].error)
       ELSE Return([i \in 1..Len(features) |->
                [index |-> i - 1] @@ passes[i].table[1]])

\* ------------------------------------------------------------- stations

\* drop_duplicates left out.
drop_duplicates_Off(df) == df

RECURSIVE drop_duplicates(_)
\* The first row of each municipality, in order.
drop_duplicates(df) ==
    IF df = <<>> THEN <<>>
    ELSE LET init == SubSeq(df, 1, Len(df) - 1)
             last == df[Len(df)]
         IN IF \E i \in 1..Len(init) : init[i].municipality = last.municipality
            THEN drop_duplicates(init)
            ELSE Append(drop_duplicates(init), last)

\* The positions of the station records of municipality m.
RecordsOf(station_df, m) ==
    {i \in 1..Len(station_df) : station_df[i].municipality = m}

\* groupby('municipality').size()
GroupSize(station_df) ==
    [m \in {station_df[i].municipality : i \in 1..Len(station_df)} |->
        Cardinality(RecordsOf(station_df, m))]

\* groupby(['municipality', 'type']).size().unstack(fill_value=0): a column
\* for every type of the data, a row for every municipality of the data.
GroupTypeSize(station_df) ==
    [m \in {station_df[i].municipality : i \in 1..Len(station_df)} |->
        [t \in {station_df[i].type : i \in 1..Len(station_df)} |->
            Cardinality({i \in RecordsOf(station_df, m) : station_df[i].type = t})]]

\* The sum taken over the whole file instead of the municipality's group.
GroupTrafficSum_Ungrouped(station_df) ==
    [m \in {station_df[i].municipality : i \in 1..Len(station_df)} |->
        SumSeq([k \in 1..Len(station_df) |-> station_df[k].traffic_count])]

\* groupby('municipality')['traffic_count'].sum()
GroupTrafficSum(station_df) ==
    [m \in {station_df[i].municipality : i \in 1..Len(station_df)} |->
        SumSeq([k \in 1..Len(station_df) |->
                   IF station_df[k].municipality = m
                   THEN station_df[k].traffic_count ELSE 0])]

\* One cell of a left join on municipality: the aggregate's value, or NaN
\* for a municipality the aggregate has no row of.
LeftJoin(aggregate, m) ==
    IF m \in DOMAIN aggregate
    THEN [isna |-> FALSE, value |-> aggregate[m]]
    ELSE [isna |-> TRUE, value |-> 0]

\* The same for the column of type t of the pivoted per-type counts.
LeftJoinType(aggregate, m, t) ==
    IF m \in DOMAIN aggregate
    THEN [isna |-> FALSE, value |-> aggregate[m][t]]
    ELSE [isna |-> TRUE, value |-> 0]

\* fillna(0) and astype(int) on one cell.
FillZero(cell) == IF cell.isna THEN 0 ELSE cell.value

\* The aggregates joined with how='inner': a municipality of the reference
\* list with no station is left out.
count_stations_per_municipality_Inner(stations_file, municipalities_df) ==
    LET station_df == apply_name_mapping(read_csv(stations_file),
                                         municipality_name_mapping)
        unique == drop_duplicates(
                      apply_name_mapping(municipalities_df,
                                         municipality_name_mapping))
        reference == SelectRows(unique,
                         [i \in 1..Len(unique) |->
                             unique[i].municipality \in DOMAIN GroupSize(station_df)])
        types == {station_df[i].type : i \in 1..Len(station_df)}
    IN IF ~({"municipality", "type", "traffic_count"}
                \subseteq Range(stations_file.header))
       THEN Raise("KeyError")
       ELSE Return([i \in 1..Len(reference) |->
                LET m == reference[i].municipality
                IN [index |-> i - 1,
                    municipality |-> m,
                    station_count |-> GroupSize(station_df)[m],
                    type_count |->
                        [t \in types |-> GroupTypeSize(station_df)[m][t]],
                    total_traffic |-> GroupTrafficSum(station_df)[m]]])

count_stations_per_municipality(stations_file, municipalities_df) ==
    LET station_df == apply_name_mapping(read_csv(stations_file),
                                         municipality_name_mapping)
        reference == drop_duplicates(
                         apply_name_mapping(municipalities_df,
                                            municipality_name_mapping))
        types == {station_df[i].type : i \in 1..Len(station_df)}
        station_count == GroupSize(station_df)
        station_type_count == GroupTypeSize(station_df)
        traffic_sum == GroupTrafficSum(station_df)
    IN IF ~({"municipality", "type", "traffic_count"}
                \subseteq Range(stations_file.header))
       THEN Raise("KeyError")
       ELSE Return([i \in 1..Len(reference) |->
                LET m == reference[i].municipality
                IN [index |-> i - 1,
                    municipality |-> m,
                    station_count |-> FillZero(LeftJoin(station_count, m)),
                    type_count |->
                        [t \in types |->
                            FillZero(LeftJoinType(station_type_count, m, t))],
                    total_traffic |-> FillZero(LeftJoin(traffic_sum, m))]])

\* --------------------------------------------------------------- merger

\* The columns of a row, the DataFrame's index left out.
Columns(row) == DOMAIN row \ {"index"}

\* how='left' in place of how='inner': a left row with no right row of its
\* key is kept, the right table's columns missing.
InnerMerge_Left(left, right) ==
    LET rightColumns == IF right = <<>> THEN {} ELSE Columns(right[1])
        matches == [i \in 1..Len(left) |->
            LET hit == SelectRows(right,
                           [j \in 1..Len(right) |->
                               right[j].municipality = left[i].municipality])
            IN IF hit = <<>>
               THEN <<[c \in Columns(left[i]) \cup rightColumns |->
                         IF c \in Columns(left[i]) THEN left[i][c] ELSE NaN]>>
               ELSE [j \in 1..Len(hit) |->
                        [c \in Columns(left[i]) \cup Columns(hit[j]) |->
                            IF c \in Columns(left[i]) THEN left[i][c] ELSE hit[j][c]]]]
        joined == Flatten(matches)
    IN [k \in 1..Len(joined) |-> [index |-> k - 1] @@ joined[k]]

\* pd.merge(left, right, on='municipality', how='inner'): for every left
\* row in order, one output row for every right row of the same key.
InnerMerge(left, right) ==
    LET matches == [i \in 1..Len(left) |->
            LET hit == SelectRows(right,
                           [j \in 1..Len(right) |->
                               right[j].municipality = left[i].municipality])
            IN [j \in 1..Len(hit) |->
                   [c \in Columns(left[i]) \cup Columns(hit[j]) |->
                       IF c \in Columns(left[i]) THEN left[i][c] ELSE hit[j][c]]]]
        joined == Flatten(matches)
    IN [k \in 1..Len(joined) |-> [index |-> k - 1] @@ joined[k]]

RECURSIVE MergeAll(_, _)
\* The loop of lines 233-234.
MergeAll(merged_data, rest) ==
    IF rest = <<>> THEN merged_data
    ELSE MergeAll(InnerMerge(merged_data, Head(rest)), Tail(rest))

\* The tables joined on the names as they are, the mapping of line 230 left out.
merge_datasets_Unmapped(datasets) ==
    IF datasets = <<>> THEN Raise("IndexError")
    ELSE Return(MergeAll(Head(datasets), Tail(datasets)))

merge_datasets(datasets) ==
    LET mapped == [k \in 1..Len(datasets) |->
                      apply_name_mapping(datasets[k], municipality_name_mapping)]
    IN IF datasets = <<>> THEN Raise("IndexError")
       ELSE Return(MergeAll(Head(mapped), Tail(mapped)))

\* data['m2_price'] = data['avg_price'] / data['avg_surface']
process_merged_data(data) ==
    [i \in 1..Len(data) |->
        [m2_price |-> Divide(data[i].avg_price, data[i].avg_surface)] @@ data[i]]

\* --------------------------------------------------------------- inputs

NoFile == [header |-> <<>>, rows |-> <<>>]

NoGeojson == [features |-> <<>>]

PriceHeader == <<"Regio's", "Onderwerp", "Valuta", "2022">>

PriceCells == {EmptyCell, <<"3", "0", "0">>, <<".">>}

PriceRows == {[municipality |-> n, avg_price |-> c] : n \in Names, c \in PriceCells}

PriceFiles ==
    {[header |-> PriceHeader, rows |-> r] : r \in SeqsUpTo(PriceRows, MaxRows)}
    \cup {[header |-> <<"Regio's", "2022">>, rows |-> <<>>]}

SurfaceHeader == <<"Unnamed: 0", "Totaal", "Totaal.1">>

SurfaceCells == {EmptyCell, <<"1", "2", "0">>, <<"0">>, <<".">>}

\* The surface file's first column may be empty on a row (the row under the
\* header that carries the units).
SurfaceRows ==
    {[municipality |-> n, avg_surface |-> c] : n \in Names, c \in SurfaceCells}
    \cup {[municipality |-> "", avg_surface |-> <<"m", "2">>]}

SurfaceFiles ==
    {[header |-> SurfaceHeader, rows |-> r] : r \in SeqsUpTo(SurfaceRows, MaxRows)}
    \cup {[header |-> <<"Unnamed: 0", "Totaal">>, rows |-> <<>>]}

MunHeader == <<"Regio's", "Perioden", "Bevolking", "Dichtheid", "Oppervlakte">>

MunCells ==
    {[population |-> <<"1", ",", "2">>, pop_density |-> <<"5", " ", "a", "a", "n", "t", "a", "l">>,
      size |-> <<"9", " ", "k", "m", "²">>],
     [population |-> EmptyCell, pop_density |-> <<"5">>, size |-> <<"9">>],
     [population |-> <<"1", "2">>, pop_density |-> <<".">>, size |-> <<"9">>],
     [population |-> <<"7">>, pop_density |-> <<"3">>, size |-> <<"x">>]}

MunRows == {[municipality |-> n] @@ c : n \in Names, c \in MunCells}

MunFiles ==
    {[header |-> MunHeader, rows |-> r] : r \in SeqsUpTo(MunRows, MaxRows)}
    \cup {[header |-> <<"Regio's", "Bevolking">>, rows |-> <<>>]}

IncomeHeader == <<"Regio's", "Inkomen">>

IncomeCells == {EmptyCell, <<"3", "1", ",", "5">>, <<" ", "3", "0">>, <<".">>}

IncomeRows == {[municipality |-> n, avg_income |-> c] : n \in Names, c \in IncomeCells}

IncomeFiles ==
    {[header |-> IncomeHeader, rows |-> r] : r \in SeqsUpTo(IncomeRows, MaxRows)}
    \cup {[header |-> <<"Regio's">>, rows |-> <<>>]}

Geometries ==
    {[kind |-> "Polygon", lat |-> "52.09", lon |-> "5.12"],
     [kind |-> "Polygon", lat |-> "52.26", lon |-> "5.22"],
     [kind |-> "EmptyPolygon", lat |-> "None", lon |-> "None"],
     [kind |-> "Unreadable", lat |-> "None", lon |-> "None"]}

Features == {[statnaam |-> n, geometry |-> g] : n \in Names, g \in Geometries}

GeojsonFiles == {[features |-> f] : f \in SeqsUpTo(Features, MaxFeatures)}

StationsHeader == <<"station", "municipality", "type", "traffic_count">>

StationKinds ==
    {[type |-> "intercity", traffic_count |-> 10],
     [type |-> "intercity", traffic_count |-> 20],
     [type |-> "sprinter", traffic_count |-> 5]}

StationRows == {[municipality |-> n] @@ k : n \in Names, k \in StationKinds}

\* The stations files of at most max records.
StationsFiles(max) ==
    {[header |-> StationsHeader, rows |-> r] : r \in SeqsUpTo(StationRows, max)}
    \cup {[header |-> <<"station", "municipality">>, rows |-> <<>>]}

\* A municipality list: a table whose only column is municipality.
MunicipalityLists ==
    {[i \in 1..Len(ns) |-> [index |-> i - 1, municipality |-> ns[i]]] :
        ns \in SeqsUpTo(Names, MaxRows)}

\* Tables as merge_datasets may be handed them: the k-th has the column
\* MergeColumn[k] beside municipality.
MergeColumn == <<"avg_price", "avg_surface", "avg_income">>

MergeValue == <<Frac(300, 1), Frac(120, 1), Frac(30, 1)>>

MergeTables(k) ==
    {[i \in 1..Len(ns) |->
        [c \in {"index", "municipality", MergeColumn[k]} |->
            IF c = "index" THEN i - 1
            ELSE IF c = "municipality" THEN ns[i] ELSE MergeValue[k]]] :
        ns \in SeqsUpTo(Names, MaxRows)}

RECURSIVE ListsOf(_)
\* The lists of n tables, the k-th among MergeTables(k).
ListsOf(n) ==
    IF n = 0 THEN {<<>>}
    ELSE {Append(d, t) : d \in ListsOf(n - 1), t \in MergeTables(n)}

RECURSIVE DatasetLists(_)
\* The lists of at least two and at most max tables.
DatasetLists(max) ==
    IF max < 2 THEN {} ELSE DatasetLists(max - 1) \cup ListsOf(max)

\* Merged tables as process_merged_data may be handed them.
MergedRows ==
    {[municipality |-> n, avg_price |-> p, avg_surface |-> a] :
        n \in Names \ DOMAIN municipality_name_mapping,
        p \in {Frac(300, 1)},
        a \in {Frac(120, 1), Frac(0, 1), NaN}}

MergedTables ==
    {[i \in 1..Len(r) |-> [index |-> i - 1] @@ r[i]] :
        r \in SeqsUpTo(MergedRows, MaxRows)}

\* ---------------------------------------------------------------- state

VARIABLES
    pc,                   \* where control is: a line of __main__, or call/returned/raised
    stage,                \* the function called last
    error,                \* the exception that ended the call or the run, or "none"
    prices_csv, surface_csv, mun_size_csv, incomes_csv, geojson, stations_csv,
    data_prices, data_surface, data_mun_size, data_incomes, data_schiphol,
    municipalities_df,    \* the municipality list handed to the station aggregator
    data_stations_count,
    datasets,             \* the tables handed to merge_datasets
    merged_data,          \* the table object merge_datasets built, as it is in memory
    final_data,
    main_output           \* the file written by to_csv, <<>> while there is none

files == <<prices_csv, surface_csv, mun_size_csv, incomes_csv, geojson, stations_csv>>

tables == <<data_prices, data_surface, data_mun_size, data_incomes, data_schiphol,
            municipalities_df, data_stations_count, datasets, merged_data,
            final_data, main_output>>

vars == <<pc, stage, error, files, tables>>

NoOutput == [written |-> FALSE, rows |-> <<>>]

Blank ==
    /\ stage = "none"
    /\ error = "none"
    /\ prices_csv = NoFile /\ surface_csv = NoFile /\ mun_size_csv = NoFile
    /\ incomes_csv = NoFile /\ geojson = NoGeojson /\ stations_csv = NoFile
    /\ data_prices = <<>> /\ data_surface = <<>> /\ data_mun_size = <<>>
    /\ data_incomes = <<>> /\ data_schiphol = <<>>
    /\ municipalities_df = <<>> /\ data_stations_count = <<>>
    /\ datasets = <<>> /\ merged_data = <<>> /\ final_data = <<>>
    /\ main_output = NoOutput

\* What a call leaves behind: the function's name, the exception if it
\* raised, and where control goes.
Called(name, r, next) ==
    /\ stage' = name
    /\ error' = r.error
    /\ pc' = IF r.ok THEN next ELSE "raised"

\* -------------------------------------------------------------- actions

CleanPrice(Files, at, next) ==
    /\ pc = at
    /\ \E f \in Files :
          LET r == clean_price_data(f)
          IN /\ prices_csv' = f
             /\ data_prices' = r.table
             /\ Called("clean_price_data", r, next)
    /\ UNCHANGED <<surface_csv, mun_size_csv, incomes_csv, geojson, stations_csv,
                   data_surface, data_mun_size, data_incomes, data_schiphol,
                   municipalities_df, data_stations_count, datasets, final_data,
                   main_output, merged_data>>

CleanSurface(Files, at, next) ==
    /\ pc = at
    /\ \E f \in Files :
          LET r == clean_surface_data(f)
          IN /\ surface_csv' = f
             /\ data_surface' = r.table
             /\ Called("clean_surface_data", r, next)
    /\ UNCHANGED <<prices_csv, mun_size_csv, incomes_csv, geojson, stations_csv,
                   data_prices, data_mun_size, data_incomes, data_schiphol,
                   municipalities_df, data_stations_count, datasets, final_data,
                   main_output, merged_data>>

CleanMunicipality(Files, at, next) ==
    /\ pc = at
    /\ \E f \in Files :
          LET r == clean_municipality_data(f)
          IN /\ mun_size_csv' = f
             /\ data_mun_size' = r.table
             /\ Called("clean_municipality_data", r, next)
    /\ UNCHANGED <<prices_csv, surface_csv, incomes_csv, geojson, stations_csv,
                   data_prices, data_surface, data_incomes, data_schiphol,
                   municipalities_df, data_stations_count, datasets, final_data,
                   main_output, merged_data>>

CleanIncome(Files, at, next) ==
    /\ pc = at
    /\ \E f \in Files :
          LET r == clean_income_data(f)
          IN /\ incomes_csv' = f
             /\ data_incomes' = r.table
             /\ Called("clean_income_data", r, next)
    /\ UNCHANGED <<prices_csv, surface_csv, mun_size_csv, geojson, stations_csv,
                   data_prices, data_surface, data_mun_size, data_schiphol,
                   municipalities_df, data_stations_count, datasets, final_data,
                   main_output, merged_data>>

LoadGeojson(Files, at, next) ==
    /\ pc = at
    /\ \E f \in Files :
          LET r == load_and_process_geojson(f)
          IN /\ geojson' = f
             /\ data_schiphol' = r.table
             /\ Called("load_and_process_geojson", r, next)
    /\ UNCHANGED <<prices_csv, surface_csv, mun_size_csv, incomes_csv, stations_csv,
                   data_prices, data_surface, data_mun_size, data_incomes,
                   municipalities_df, data_stations_count, datasets, final_data,
                   main_output, merged_data>>

\* count_stations_per_municipality(stations_path, reference) for a
\* reference list among Lists.
CountStations(Files, Lists, at, next) ==
    /\ pc = at
    /\ \E f \in Files, reference \in Lists :
          LET r == count_stations_per_municipality(f, reference)
          IN /\ stations_csv' = f
             /\ municipalities_df' = reference
             /\ data_stations_count' = r.table
             /\ Called("count_stations_per_municipality", r, next)
    /\ UNCHANGED <<prices_csv, surface_csv, mun_size_csv, incomes_csv, geojson,
                   data_prices, data_surface, data_mun_size, data_incomes,
                   data_schiphol, datasets, final_data, main_output, merged_data>>

\* merge_datasets(*d) for a list of tables d among Lists.
MergeDatasets(Lists, at, next) ==
    /\ pc = at
    /\ \E d \in Lists :
          LET r == merge_datasets(d)
          IN /\ datasets' = d
             /\ merged_data' = r.table
             /\ final_data' = r.table
             /\ Called("merge_datasets", r, next)
    /\ UNCHANGED <<files, data_prices, data_surface, data_mun_size, data_incomes,
                   data_schiphol, municipalities_df, data_stations_count,
                   main_output>>

\* final_data = process_merged_data(data) for a merged table among Tables:
\* the column is assigned on the table object handed in (line 247) and that
\* object is what is returned (line 248).
ProcessMergedData(Tables, at, next) ==
    /\ pc = at
    /\ \E data \in Tables :
          /\ merged_data' = process_merged_data(data)
          /\ final_data' = merged_data'
          /\ Called("process_merged_data", Return(<<>>), next)
    /\ UNCHANGED <<files, data_prices, data_surface, data_mun_size, data_incomes,
                   data_schiphol, municipalities_df, data_stations_count, datasets,
                   main_output>>

\* ------------------------------------------------- calls, one at a time

\* Each function called once, on any input of its domain.
InitCalls == pc = "call" /\ Blank

CallCleanPrice == CleanPrice(PriceFiles, "call", "returned")

CallCleanSurface == CleanSurface(SurfaceFiles, "call", "returned")

CallCleanMunicipality == CleanMunicipality(MunFiles, "call", "returned")

CallCleanIncome == CleanIncome(IncomeFiles, "call", "returned")

CallLoadGeojson == LoadGeojson(GeojsonFiles, "call", "returned")

CallCountStations ==
    CountStations(StationsFiles(MaxStations), MunicipalityLists, "call", "returned")

CallMergeDatasets == MergeDatasets(DatasetLists(MaxTables), "call", "returned")

CallProcessMergedData == ProcessMergedData(MergedTables, "call", "returned")

NextCleaners ==
    \/ CallCleanPrice
    \/ CallCleanSurface
    \/ CallCleanMunicipality
    \/ CallCleanIncome
    \/ CallLoadGeojson

SpecCleaners == InitCalls /\ [][NextCleaners]_vars

SpecStations == InitCalls /\ [][CallCountStations]_vars

NextMerger == CallMergeDatasets \/ CallProcessMergedData

SpecMerger == InitCalls /\ [][NextMerger]_vars

\* --------------------------------------------------------------- claims

Returned(name) == pc = "returned" /\ stage = name

\* The canonical municipality keys of a table.
Keys(t) == {canonicalize(t[i].municipality) : i \in 1..Len(t)}

\* The number of rows of t whose canonical key is m.
RowsOfKey(t, m) == Cardinality({i \in 1..Len(t) : canonicalize(t[i].municipality) = m})

UniqueKeys(t) == \A m \in Keys(t) : RowsOfKey(t, m) = 1

\* The keys that occur in every table of the list d.
CommonKeys(d) == {m \in Keys(d[1]) : \A k \in 1..Len(d) : m \in Keys(d[k])}

\* C1: the merged output of merge_datasets has at most as many rows as the
\* smallest input table, and exactly as many as there are canonical keys
\* that occur in every input table, also when a table holds a canonical key
\* on more than one row.
C1_MergedRowCount ==
    Returned("merge_datasets") =>
        /\ \A k \in 1..Len(datasets) : Len(final_data) <= Len(datasets[k])
        /\ Len(final_data) = Cardinality(CommonKeys(datasets))

\* The same for input tables that hold every canonical key on one row.
MergedRowCountOfUniqueKeys ==
    (Returned("merge_datasets") /\ \A k \in 1..Len(datasets) : UniqueKeys(datasets[k])) =>
        /\ \A k \in 1..Len(datasets) : Len(final_data) <= Len(datasets[k])
        /\ Len(final_data) = Cardinality(CommonKeys(datasets))

\* The table a cleaner or the geometry processor returned.
Cleaned ==
    CASE stage = "clean_price_data" -> data_prices
      [] stage = "clean_surface_data" -> data_surface
      [] stage = "clean_municipality_data" -> data_mun_size
      [] stage = "clean_income_data" -> data_incomes
      [] stage = "load_and_process_geojson" -> data_schiphol
      [] OTHER -> <<>>

\* C2: in the table returned by each cleaner and by load_and_process_geojson
\* every canonical municipality key is on at most one row.
C2_CleanedKeysUnique == pc = "returned" => UniqueKeys(Cleaned)

\* The canonical names of the station records and of the reference list.
StationNames == [i \in 1..Len(stations_csv.rows) |->
                    canonicalize(stations_csv.rows[i].municipality)]

ReferenceNames == {canonicalize(municipalities_df[i].municipality) :
                      i \in 1..Len(municipalities_df)}

\* C3: the output of count_stations_per_municipality has exactly one row
\* per distinct canonical municipality of the reference list, every count
\* and total_traffic is a non-negative integer, and all are 0 for a
\* reference municipality without station record.
C3_OneRowPerReference ==
    Returned("count_stations_per_municipality") =>
        /\ \A m \in ReferenceNames :
              Cardinality({i \in 1..Len(data_stations_count) :
                              data_stations_count[i].municipality = m}) = 1
        /\ \A i \in 1..Len(data_stations_count) :
              LET row == data_stations_count[i]
              IN /\ row.municipality \in ReferenceNames
                 /\ row.station_count \in Nat
                 /\ row.total_traffic \in Nat
                 /\ \A t \in DOMAIN row.type_count : row.type_count[t] \in Nat
                 /\ (row.municipality \notin Range(StationNames)) =>
                        /\ row.station_count = 0
                        /\ row.total_traffic = 0
                        /\ \A t \in DOMAIN row.type_count : row.type_count[t] = 0

\* A reference list that names one municipality twice, by an alias and by
\* its canonical name, while all the stations of the file are elsewhere.
C3_Witness ==
    /\ Returned("count_stations_per_municipality")
    /\ Len(municipalities_df) > Cardinality(ReferenceNames)
    /\ \E i, j \in 1..Len(municipalities_df) :
          municipalities_df[i].municipality # municipalities_df[j].municipality
    /\ Len(stations_csv.rows) > 1
    /\ \E i \in 1..Len(data_stations_count) :
          /\ data_stations_count[i].municipality \notin Range(StationNames)
          /\ DOMAIN data_stations_count[i].type_count # {}

\* C4: after process_merged_data every row has m2_price = avg_price /
\* avg_surface, a finite number, and no row has avg_surface = 0.
C4_NoZeroSurface ==
    Returned("process_merged_data") =>
        \A i \in 1..Len(final_data) :
            /\ final_data[i].avg_surface # Frac(0, 1)
            /\ IsFinite(final_data[i].m2_price) \/ IsNaN(final_data[i].avg_surface)

\* The municipality keys of a table, as merge_datasets joins on them.
JoinKeys(t) ==
    LET mapped == apply_name_mapping(t, municipality_name_mapping)
    IN [i \in 1..Len(t) |-> mapped[i].municipality]

Located(features) ==
    SelectRows(features,
        [i \in 1..Len(features) |-> features[i].geometry.kind = "Polygon"])

\* C6: a feature whose centroid computation fails does not abort
\* load_and_process_geojson: the call returns, that feature has no row and
\* every other feature has its row.
C6_CentroidFailureNotFatal ==
    stage = "load_and_process_geojson" =>
        /\ pc = "returned"
        /\ Len(data_schiphol) = Len(Located(geojson.features))
        /\ \A i \in 1..Len(data_schiphol) :
              data_schiphol[i].municipality
                  = canonicalize(Located(geojson.features)[i].statnaam)

\* C7: no row of a cleaner's table has a missing value in a mandatory
\* metric column.
C7_NoMissingMetric ==
    /\ Returned("clean_price_data") =>
          \A i \in 1..Len(data_prices) : ~IsNaN(data_prices[i].avg_price)
    /\ Returned("clean_surface_data") =>
          \A i \in 1..Len(data_surface) : ~IsNaN(data_surface[i].avg_surface)
    /\ Returned("clean_municipality_data") =>
          \A i \in 1..Len(data_mun_size) :
              /\ ~IsNaN(data_mun_size[i].population)
              /\ ~IsNaN(data_mun_size[i].pop_density)
              /\ ~IsNaN(data_mun_size[i].size)
    /\ Returned("clean_income_data") =>
          \A i \in 1..Len(data_incomes) : ~IsNaN(data_incomes[i].avg_income)

\* The rows of the cleaned income table that come from the file's row i.
IncomeRowsOf(i) == {k \in 1..Len(data_incomes) : data_incomes[k].index = i - 1}

\* The income cell of the file's row i, as a number.
IncomeParsed(i) == to_numeric(DecimalPoint(incomes_csv.rows[i].avg_income))

\* C8: clean_income_data keeps a row whose income parses with its own
\* value, keeps a row whose income is missing or does not parse with the
\* fallback value when its name is a key of missing_incomes, and drops it
\* when the name is no key.
C8_IncomeFallback ==
    Returned("clean_income_data") =>
        \A i \in 1..Len(incomes_csv.rows) :
            LET name == incomes_csv.rows[i].municipality
                kept == IncomeRowsOf(i)
            IN IF ~IsNaN(IncomeParsed(i))
               THEN /\ Cardinality(kept) = 1
                    /\ \A k \in kept :
                          /\ data_incomes[k].avg_income = IncomeParsed(i)
                          /\ data_incomes[k].municipality = name
               ELSE IF name \in DOMAIN missing_incomes
               THEN /\ Cardinality(kept) = 1
                    /\ \A k \in kept :
                          /\ data_incomes[k].avg_income = missing_incomes[name]
                          /\ data_incomes[k].municipality = name
               ELSE kept = {}

\* An income file with a row kept by the fallback and a row of a
\* municipality of the fallback table that has its own value.
C8_Witness ==
    /\ Returned("clean_income_data")
    /\ \E i, j \in 1..Len(incomes_csv.rows) :
          /\ IsNaN(IncomeParsed(i)) /\ IncomeRowsOf(i) # {}
          /\ ~IsNaN(IncomeParsed(j))
          /\ incomes_csv.rows[j].municipality \in DOMAIN missing_incomes
          /\ IncomeParsed(j) # missing_incomes[incomes_csv.rows[j].municipality]

SurfaceComplete ==
    SelectRows(surface_csv.rows,
        [i \in 1..Len(surface_csv.rows) |->
            /\ surface_csv.rows[i].municipality # ""
            /\ surface_csv.rows[i].avg_surface # EmptyCell])

StationsOf(m) == {i \in 1..Len(stations_csv.rows) : StationNames[i] = m}

RECURSIVE SumOver(_, _)
SumOver(S, f) ==
    IF S = {} THEN 0
    ELSE LET x == CHOOSE x \in S : TRUE IN f[x] + SumOver(S \ {x}, f)

\* C10: for every reference municipality m, station_count is the number of
\* station records of m, every type of the stations data has a count
\* column that holds the number of m's records of that type, total_traffic
\* is the sum of their traffic counts, and the per-type counts add up to
\* station_count.
C10_StationAggregates ==
    Returned("count_stations_per_municipality") =>
        \A i \in 1..Len(data_stations_count) :
            LET row == data_stations_count[i]
                mine == StationsOf(row.municipality)
            IN /\ row.station_count = Cardinality(mine)
               /\ DOMAIN row.type_count
                     = {stations_csv.rows[k].type : k \in 1..Len(stations_csv.rows)}
               /\ \A t \in DOMAIN row.type_count :
                     row.type_count[t]
                         = Cardinality({k \in mine : stations_csv.rows[k].type = t})
               /\ row.total_traffic
                     = SumOver(mine, [k \in mine |-> stations_csv.rows[k].traffic_count])
               /\ SumOver(DOMAIN row.type_count, row.type_count) = row.station_count

\* A municipality with three station records of types intercity, intercity,
\* sprinter and traffic 10, 20, 5, one of them under an alias.
C10_Witness ==
    /\ Returned("count_stations_per_municipality")
    /\ \E i \in 1..Len(data_stations_count) :
          /\ data_stations_count[i].station_count = 3
          /\ data_stations_count[i].type_count
                = [t \in {"intercity", "sprinter"} |->
                      IF t = "intercity" THEN 2 ELSE 1]
          /\ data_stations_count[i].total_traffic = 35
    /\ \E k \in 1..Len(stations_csv.rows) :
          stations_csv.rows[k].municipality \in DOMAIN municipality_name_mapping

\* The two mappers alone: the geometry processor and the station aggregator.
NextMappers == CallLoadGeojson \/ CallCountStations

SpecMappers == InitCalls /\ [][NextMappers]_vars

\* ---------------------------------------------------------- the pipeline

\* The input files of a run of __main__: a few of each kind, among them one
\* of a wrong layout.
MainPriceFiles ==
    {f \in PriceFiles :
        \/ f.header # PriceHeader
        \/ /\ Len(f.rows) = MaxRows
           /\ f.rows[1].municipality = "Utrecht (gemeente)"
           /\ f.rows[1].avg_price = <<"3", "0", "0">>
           /\ f.rows[2].municipality \in {"Laren", "Utrecht"}
           /\ f.rows[2].avg_price # EmptyCell
           /\ \A i \in 3..Len(f.rows) :
                 /\ f.rows[i].municipality = "Laren"
                 /\ f.rows[i].avg_price = <<"3", "0", "0">>}

MainSurfaceFiles ==
    {f \in SurfaceFiles :
        /\ f.header = SurfaceHeader
        /\ Len(f.rows) = MaxRows
        /\ \/ f.rows[1].municipality = ""
           \/ f.rows[1] = [municipality |-> "Laren", avg_surface |-> <<"1", "2", "0">>]
        /\ f.rows[2].municipality = "Utrecht"
        /\ \A i \in 3..Len(f.rows) :
              f.rows[i] = [municipality |-> "Laren", avg_surface |-> <<"1", "2", "0">>]}

MainMunFiles ==
    {f \in MunFiles :
        /\ f.header = MunHeader
        /\ Len(f.rows) = 1
        /\ f.rows[1].municipality = "Utrecht"
        /\ f.rows[1].population # <<"7">>}

MainIncomeFiles ==
    {f \in IncomeFiles :
        /\ f.header = IncomeHeader
        /\ Len(f.rows) = 1
        /\ f.rows[1].municipality \in {"Utrecht", "Laren"}
        /\ f.rows[1].avg_income \in {EmptyCell, <<"3", "1", ",", "5">>}}

MainGeojsonFiles ==
    {f \in GeojsonFiles :
        /\ Len(f.features) = 1
        /\ f.features[1].statnaam = "Utrecht"
        /\ f.features[1].geometry.lat # "52.26"}

MainStationsFiles ==
    {f \in StationsFiles(1) :
        /\ Len(f.rows) <= 1
        /\ \A i \in 1..Len(f.rows) : f.rows[i].traffic_count = 10}

\* data_prices[['municipality']]
MunicipalityColumn(data) ==
    [i \in 1..Len(data) |->
        [index |-> data[i].index, municipality |-> data[i].municipality]]

Init == pc = "L265" /\ Blank

MainCleanPrice == CleanPrice(MainPriceFiles, "L265", "L266")

MainCleanSurface == CleanSurface(MainSurfaceFiles, "L266", "L267")

MainCleanMunicipality == CleanMunicipality(MainMunFiles, "L267", "L268")

MainCleanIncome == CleanIncome(MainIncomeFiles, "L268", "L269")

MainLoadGeojson == LoadGeojson(MainGeojsonFiles, "L269", "L271")

MainCountStations ==
    CountStations(MainStationsFiles, {MunicipalityColumn(data_prices)}, "L271", "L274")

MainMergeDatasets ==
    MergeDatasets({<<data_prices, data_surface, data_mun_size, data_incomes,
                     data_schiphol, data_stations_count>>}, "L274", "L277")

MainProcessMergedData == ProcessMergedData({final_data}, "L277", "L280")

\* The file written whether or not the run was aborted.
WriteOutput_Always ==
    /\ pc \in {"L280", "raised"}
    /\ main_output' = [written |-> TRUE, rows |-> final_data]
    /\ pc' = "done"
    /\ stage' = "to_csv"
    /\ UNCHANGED <<error, files, data_prices, data_surface, data_mun_size,
                   data_incomes, data_schiphol, municipalities_df,
                   data_stations_count, datasets, merged_data, final_data>>

\* final_data.to_csv(main_output, index=False)
WriteOutput ==
    /\ pc = "L280"
    /\ main_output' = [written |-> TRUE, rows |-> final_data]
    /\ pc' = "done"
    /\ stage' = "to_csv"
    /\ UNCHANGED <<error, files, data_prices, data_surface, data_mun_size,
                   data_incomes, data_schiphol, municipalities_df,
                   data_stations_count, datasets, merged_data, final_data>>

Next ==
    \/ MainCleanPrice
    \/ MainCleanSurface
    \/ MainCleanMunicipality
    \/ MainCleanIncome
    \/ MainLoadGeojson
    \/ MainCountStations
    \/ MainMergeDatasets
    \/ MainProcessMergedData
    \/ WriteOutput

Spec == Init /\ [][Next]_vars

\* ------------------------------------------------- claims of the pipeline

\* The six tables of a run are the results of their stages on the files
\* read, none of which raised; the station aggregator had the price
\* cleaner's municipality list.
StagesCompleted ==
    /\ clean_price_data(prices_csv).ok
    /\ data_prices = clean_price_data(prices_csv).table
    /\ clean_surface_data(surface_csv).ok
    /\ data_surface = clean_surface_data(surface_csv).table
    /\ clean_municipality_data(mun_size_csv).ok
    /\ data_mun_size = clean_municipality_data(mun_size_csv).table
    /\ clean_income_data(incomes_csv).ok
    /\ data_incomes = clean_income_data(incomes_csv).table
    /\ load_and_process_geojson(geojson).ok
    /\ data_schiphol = load_and_process_geojson(geojson).table
    /\ municipalities_df = MunicipalityColumn(data_prices)
    /\ count_stations_per_municipality(stations_csv, municipalities_df).ok
    /\ data_stations_count
          = count_stations_per_municipality(stations_csv, municipalities_df).table

\* The merged table with m2_price, from the six tables of the run.
Derived ==
    process_merged_data(
        merge_datasets(<<data_prices, data_surface, data_mun_size, data_incomes,
                         data_schiphol, data_stations_count>>).table)

\* C11: the output file is written only after every cleaner, the geometry
\* processor, the station aggregator (run after the price cleaner, on its
\* municipality list), the merge and the m2_price derivation have
\* completed; a run in which a stage failed has written no file.
C11_OutputAfterAllStages ==
    /\ main_output.written =>
          /\ pc = "done"
          /\ error = "none"
          /\ StagesCompleted
          /\ main_output.rows = Derived
    /\ pc = "raised" => (error # "none" /\ ~main_output.written)
    /\ pc \in {"L274", "L277", "L280", "done"} => StagesCompleted

\* A run that wrote a file with a row in it.
C11_Witness ==
    /\ pc = "done"
    /\ main_output.written
    /\ main_output.rows # <<>>

\* C12: merge_datasets joins on the canonical names: a municipality that
\* every input table has, under its canonical name or under an alias, is in
\* the merged output under its canonical name, and the output has no other
\* key.
C12_JoinOnCanonicalNames ==
    Returned("merge_datasets") =>
        /\ \A m \in CommonKeys(datasets) :
              \E i \in 1..Len(final_data) : final_data[i].municipality = m
        /\ \A i \in 1..Len(final_data) :
              final_data[i].municipality \in CommonKeys(datasets)

\* The names of table k as they were handed in.
RawNames(k) == {datasets[k][i].municipality : i \in 1..Len(datasets[k])}

\* A municipality that one table has only under an alias and another only
\* under its canonical name, and that is in the merged output.
C12_Witness ==
    /\ Returned("merge_datasets")
    /\ \E a \in DOMAIN municipality_name_mapping :
          /\ \E k \in 1..Len(datasets) :
                a \in RawNames(k) /\ municipality_name_mapping[a] \notin RawNames(k)
          /\ \E k \in 1..Len(datasets) :
                a \notin RawNames(k) /\ municipality_name_mapping[a] \in RawNames(k)
          /\ \E i \in 1..Len(final_data) :
                final_data[i].municipality = municipality_name_mapping[a]

\* The statements of __main__, in order.
Labels == <<"L265", "L266", "L267", "L268", "L269", "L271", "L274", "L277", "L280", "done">>

\* Control is past the statement at label l, which has completed.
After(l) ==
    \E i, j \in 1..Len(Labels) : Labels[i] = l /\ Labels[j] = pc /\ i < j

\* C13: no table is modified after the stage that built it has completed;
\* process_merged_data in particular leaves the merged table it is handed
\* as it was (same columns, same values).
C13_TablesNotModified ==
    [][/\ After("L265") => data_prices' = data_prices
       /\ After("L266") => data_surface' = data_surface
       /\ After("L267") => data_mun_size' = data_mun_size
       /\ After("L268") => data_incomes' = data_incomes
       /\ After("L269") => data_schiphol' = data_schiphol
       /\ After("L271") => data_stations_count' = data_stations_count
       /\ After("L274") => merged_data' = merged_data]_vars

\* The tables of the call in the order p, a permutation of their positions.
Permuted(p) == [k \in 1..Len(datasets) |-> datasets[p[k]]]

\* The municipality names of the rows of a table, as they stand.
OutputKeys(t) == {t[i].municipality : i \in 1..Len(t)}

\* C14: the output of merge_datasets has the same set of municipality keys
\* and the same number of rows for every permutation of the same input
\* tables.
C14_OrderIndependent ==
    Returned("merge_datasets") =>
        \A p \in Permutations(1..Len(datasets)) :
            LET r == merge_datasets(Permuted(p))
            IN /\ r.ok
               /\ OutputKeys(r.table) = OutputKeys(final_data)
               /\ Len(r.table) = Len(final_data)

\* A call whose tables differ in their keys and in how often they hold the
\* common key, with more than one row in the output.
C14_Witness ==
    /\ Returned("merge_datasets")
    /\ Len(final_data) > 1
    /\ \E j, k \in 1..Len(datasets) :
          /\ Keys(datasets[j]) # Keys(datasets[k])
          /\ \E m \in OutputKeys(final_data) :
                RowsOfKey(datasets[j], m) # RowsOfKey(datasets[k], m)
          /\ \E p \in Permutations(1..Len(datasets)) :
                p[1] = k /\ p[2] = j /\ Permuted(p) # datasets

\* The join of the first five tables of line 274, the station table left out.
JoinedBeforeStations ==
    merge_datasets(<<data_prices, data_surface, data_mun_size, data_incomes,
                     data_schiphol>>).table

\* The number of rows of table t whose municipality is m.
RowsNamed(t, m) == Cardinality({i \in 1..Len(t) : t[i].municipality = m})

\* C15: in the pipeline the join of the station table removes no row: every
\* municipality that survives the joins of the price, surface, size, income
\* and geometry tables is a key of the station table, and the output has
\* every row of that join.
C15_StationJoinKeepsRows ==
    pc \in {"L277", "L280", "done"} =>
        /\ OutputKeys(JoinedBeforeStations) \subseteq OutputKeys(data_stations_count)
        /\ \A m \in OutputKeys(JoinedBeforeStations) :
              /\ RowsNamed(merged_data, m) >= RowsNamed(JoinedBeforeStations, m)
              /\ RowsNamed(final_data, m) >= RowsNamed(JoinedBeforeStations, m)

\* A merged run in which a municipality with no station at all survived the
\* five joins and is in the output.
C15_Witness ==
    /\ pc \in {"L277", "L280", "done"}
    /\ \E i \in 1..Len(data_stations_count) :
          /\ data_stations_count[i].station_count = 0
          /\ data_stations_count[i].municipality \in OutputKeys(JoinedBeforeStations)
          /\ data_stations_count[i].municipality \in OutputKeys(final_data)
    /\ \E i \in 1..Len(data_stations_count) :
          data_stations_count[i].station_count > 0

====
